---- MODULE Spec2Model ----
(***************************************************************************)
(* A state-machine model of easydrm: the orchestrator EasyDRM<T>           *)
(* (src/src/lib.rs), the per-monitor pipeline Monitor<T>                   *)
(* (src/src/monitor.rs) and the uevent drain (src/src/hotplug.rs),        *)
(* together with the part of the kernel they talk to (connector list,     *)
(* page-flip event queue, uevent queue, descriptor table).                *)
(***************************************************************************)
EXTENDS Integers, Sequences, FiniteSets, TLC

(***************************************************************************)
(* Option<T>: None is the empty tuple, Some(x) the one-element tuple.      *)
(***************************************************************************)
None == << >>
Some(x) == << x >>
IsSome(o) == o # None
Unwrap(o) == o[1]
UnwrapOr(o, d) == IF o = None THEN d ELSE o[1]

(***************************************************************************)
(* Bounds of the model.                                                    *)
(***************************************************************************)
\* descriptors the process may hold open for fences (the fd table)
MaxFds == 3
\* EGL sync objects the driver can hold alive
MaxSyncs == 3
\* datagrams the uevent socket buffers before the kernel drops new ones
MaxUevents == 1
\* calls to EGL, GBM and the kernel that may fail in one run
MaxFaults == 1
\* receive results waiting on the uevent socket when it is drained directly
MaxDrain == 2

(***************************************************************************)
(* The device.  Handles are numbers: connectors 1.., CRTCs 11..,           *)
(* planes 21...                                                            *)
(***************************************************************************)
Connectors == {1, 2}
\* res.crtcs(), in the kernel's order
Crtcs == << 11, 12 >>
\* card.plane_handles(), in the kernel's order
PlaneList == << 21, 22, 23, 24, 25, 26 >>
\* the "type" property of a plane
PlaneTypeOf(p) == IF p \in {21, 23, 25} THEN "Primary" ELSE "Cursor"
\* res.filter_crtcs(plane_info.possible_crtcs()): planes 25 and 26 serve
\* either CRTC
PlaneCrtcs(p) ==
    IF p \in {21, 22} THEN {11} ELSE IF p \in {23, 24} THEN {12} ELSE {11, 12}
\* res.filter_crtcs(encoder.possible_crtcs()) over connector.encoders(), in order
EncoderCrtcs(c) == << 11, 12 >>
\* names in the property maps snapshotted at setup
ConnectorProps == {"CRTC_ID"}
CrtcProps == {"MODE_ID", "ACTIVE"}
PlaneProps == {"CRTC_ID", "FB_ID", "SRC_X", "SRC_Y", "SRC_W", "SRC_H",
               "CRTC_X", "CRTC_Y", "CRTC_W", "CRTC_H", "IN_FENCE_FD", "type"}
\* buffers of one GBM surface
BufferIds == {1, 2, 3}

(***************************************************************************)
(* control::Mode: a value compared structurally.                           *)
(***************************************************************************)
Mode1080 == [w |-> 1920, h |-> 1080, hz |-> 60]
Mode720 == [w |-> 1280, h |-> 720, hz |-> 120]
Modes == {Mode1080, Mode720}
ModeSize(m) == << m.w, m.h >>
VRefresh(m) == m.hz
\* the mode lists (connector.modes(), preferred mode first) of the displays
\* that can be plugged into connector c
Displays(c) ==
    IF c = 1 THEN {<< Mode1080, Mode720 >>}
    ELSE {<< Mode720, Mode1080 >>, << Mode1080, Mode720 >>}
OptModes == {None} \cup {Some(m) : m \in Modes}

VARIABLES
    monitors,               \* EasyDRM.monitors: connector handle -> Monitor
    refresh_rate_groups,    \* EasyDRM.refresh_rate_groups: Hz -> connectors
    fastest_group_refresh,  \* EasyDRM.fastest_group_refresh: Option<Hz>
    fastest_group_pending,  \* EasyDRM.fastest_group_pending
    should_update_flag,     \* EasyDRM.should_update_flag
    uevent_socket,          \* EasyDRM.uevent_socket is Some
    drm_connectors,         \* kernel: the connectors res.connectors() lists
    drm_connected,          \* kernel: those whose state is Connected
    drm_modes,              \* kernel: connector.modes() of each connector
    uevents,                \* kernel: datagrams queued on the uevent socket
    page_flips,             \* kernel: CRTCs with a page-flip event queued
    fds,                    \* kernel: open fence descriptors of the process
    syncs,                  \* EGL: live sync objects
    drm_all,                \* kernel: the connectors the device can ever list
    faults,                 \* environment: failures it may still inject
    committed_mode,         \* history: mode of the last successful mode-set commit
    since_reset,            \* history: connectors committed since the last reset
    cycle_done,             \* history: the fastest group completed a cycle
    last                    \* observation: the last call and what it produced

vars == << monitors, refresh_rate_groups, fastest_group_refresh,
           fastest_group_pending, should_update_flag, uevent_socket,
           drm_connectors, drm_connected, drm_modes, uevents, page_flips,
           fds, syncs, drm_all, faults, committed_mode, since_reset, cycle_done, last >>

Live == DOMAIN monitors

(***************************************************************************)
(* Small helpers on sets and sequences.                                    *)
(***************************************************************************)
Min(S) == CHOOSE x \in S : \A y \in S : x <= y
Max(S) == CHOOSE x \in S : \A y \in S : y <= x
Range(s) == {s[i] : i \in 1..Len(s)}
\* every ordering of a finite set
Orders(S) == {s \in [1..Cardinality(S) -> S] : Range(s) = S}
\* a set of numbers as the ascending sequence
RECURSIVE Ascending(_)
Ascending(S) == IF S = {} THEN << >> ELSE << Min(S) >> \o Ascending(S \ {Min(S)})
\* the first element of the sequence s that lies in the set S, as an Option
FirstOf(s, S) ==
    LET I == {i \in 1..Len(s) : s[i] \in S}
    IN IF I = {} THEN None ELSE Some(s[Min(I)])
\* s without its elements in S, and without repetitions, order kept
RECURSIVE Dedup(_, _)
Dedup(s, S) ==
    IF s = << >> THEN << >>
    ELSE IF Head(s) \in S THEN Dedup(Tail(s), S)
    ELSE << Head(s) >> \o Dedup(Tail(s), S \cup {Head(s)})

(***************************************************************************)
(* Monitor (src/src/monitor.rs).                                           *)
(***************************************************************************)
\* Monitor::setup's choice of CRTC: the first handle of res.crtcs() that
\* get_crtc answers for (the kernel answers for every handle it lists)
SetupCrtc == FirstOf(Crtcs, Range(Crtcs))

\* Monitor::setup's choice of a plane of one type for that CRTC
SetupPlane(crtc, type) ==
    FirstOf(PlaneList, {p \in Range(PlaneList) :
                            crtc \in PlaneCrtcs(p) /\ PlaneTypeOf(p) = type})

\* the Monitor value built at the end of setup
NewMonitor(c, crtc, default_mode, primary, cursor) ==
    [ connector_id |-> c,
      current_crtc |-> crtc,
      default_mode |-> default_mode,
      requested_mode |-> None,
      current_mode |-> None,
      primary_plane_id |-> primary,
      cursor_plane_id |-> cursor,
      can_render |-> TRUE,
      was_drawn |-> FALSE,
      previous_bo |-> None,
      previous_fence_fd |-> None,
      previous_sync |-> None,
      connector_properties |-> ConnectorProps,
      crtc_properties |-> CrtcProps,
      plane_properties |-> PlaneProps,
      first_frame |-> TRUE ]

\* (mutant) the default mode is the last mode the connector reports
MonitorSetupLastMode(c, modes, gles_ok) ==
    LET crtc == SetupCrtc
    IN IF crtc = None THEN None
       ELSE IF modes = << >> THEN None
       ELSE LET primary == SetupPlane(Unwrap(crtc), "Primary")
                cursor == SetupPlane(Unwrap(crtc), "Cursor")
            IN IF primary = None THEN None
               ELSE IF ~gles_ok THEN None
               ELSE Some(NewMonitor(c, Unwrap(crtc), modes[Len(modes)],
                                    Unwrap(primary), cursor))
\* Monitor::setup(card, gbm_device, connector_id, context_constructor): Some(monitor),
\* or None for an Err; gles_ok is whether GlesContext::new and the property
\* queries succeed
MonitorSetup(c, modes, gles_ok) ==
    LET crtc == SetupCrtc
    IN IF crtc = None THEN None
       ELSE IF modes = << >> THEN None
       ELSE LET primary == SetupPlane(Unwrap(crtc), "Primary")
                cursor == SetupPlane(Unwrap(crtc), "Cursor")
            IN IF primary = None THEN None
               ELSE IF ~gles_ok THEN None
               ELSE Some(NewMonitor(c, Unwrap(crtc), modes[1], Unwrap(primary), cursor))

\* Monitor::active_mode
ActiveMode(m) == UnwrapOr(m.requested_mode, m.default_mode)

\* (mutant) a mode set on the first frame as well as on a mode change
NeedsModeSetFirstFrame(m) == m.first_frame \/ m.requested_mode # m.current_mode
\* Monitor::needs_mode_set
NeedsModeSet(m) == m.requested_mode # m.current_mode

\* (mutant) current_mode records the mode that was programmed
MarkModeSetTarget(m) == [m EXCEPT !.current_mode = Some(ActiveMode(m))]
\* Monitor::mark_mode_set
MarkModeSet(m) == [m EXCEPT !.current_mode = m.requested_mode]

\* (mutant) set_mode takes the mode as already programmed
MonitorSetModeNow(m, mode) ==
    [m EXCEPT !.requested_mode = mode, !.current_mode = mode]
\* Monitor::set_mode
MonitorSetMode(m, mode) == [m EXCEPT !.requested_mode = mode]

\* (mutant) the drawn flag is set before EGL is asked
MonitorMakeCurrentAlways(m, egl_ok) == [m EXCEPT !.was_drawn = TRUE]
\* Monitor::make_current
MonitorMakeCurrent(m, egl_ok) == IF egl_ok THEN [m EXCEPT !.was_drawn = TRUE] ELSE m
\* (mutant) the flag is left as it is
SetCanRenderKeep(m, value) == m
\* Monitor::set_can_render
SetCanRender(m, value) == [m EXCEPT !.can_render = value]
\* (mutant) the drawn flag survives the commit
ResetDrawnFlagKeep(m) == m
ResetDrawnFlag(m) == [m EXCEPT !.was_drawn = FALSE]

(***************************************************************************)
(* Resource allocation (src/src/lib.rs).                                   *)
(***************************************************************************)
\* EasyDRM::current_resource_usage
CurrentResourceUsage(mons) ==
    [ crtcs |-> {mons[c].current_crtc : c \in DOMAIN mons},
      primary |-> {mons[c].primary_plane_id : c \in DOMAIN mons},
      cursor |-> {Unwrap(mons[c].cursor_plane_id) :
                     c \in {d \in DOMAIN mons : IsSome(mons[d].cursor_plane_id)}} ]

\* EasyDRM::crtc_candidates_for_connector
CrtcCandidatesForConnector(c, used_crtcs) == Dedup(EncoderCrtcs(c), used_crtcs)

\* (mutant) the last plane that fits is taken
FindPlaneForCrtcLast(crtc, type, used_planes) ==
    LET fits == {i \in 1..Len(PlaneList) :
                    /\ PlaneList[i] \notin used_planes
                    /\ crtc \in PlaneCrtcs(PlaneList[i])
                    /\ PlaneTypeOf(PlaneList[i]) = type}
    IN IF fits = {} THEN None ELSE Some(PlaneList[Max(fits)])
\* EasyDRM::find_plane_for_crtc with plane_is_type
FindPlaneForCrtc(crtc, type, used_planes) ==
    FirstOf(PlaneList, {p \in Range(PlaneList) :
                            /\ p \notin used_planes
                            /\ crtc \in PlaneCrtcs(p)
                            /\ PlaneTypeOf(p) = type})

\* EasyDRM::allocate_monitor_resources: Some(allocation), or None for an Err
AllocateMonitorResources(c, used, connected) ==
    IF c \notin connected THEN None
    ELSE LET candidates == CrtcCandidatesForConnector(c, used.crtcs)
         IN IF candidates = << >> THEN None
            ELSE LET crtc == candidates[1]
                     primary == FindPlaneForCrtc(crtc, "Primary", used.primary)
                     cursor == FindPlaneForCrtc(crtc, "Cursor", used.cursor)
                 IN IF primary = None THEN None
                    ELSE Some([crtc_info |-> crtc,
                               primary_plane |-> Unwrap(primary),
                               cursor_plane |-> cursor])

\* EasyDRM::allocate_monitor_resources: the MonitorSetupError it returns
AllocationError(c, used, connected) ==
    IF c \notin connected THEN "NotConnected"
    ELSE LET candidates == CrtcCandidatesForConnector(c, used.crtcs)
         IN IF candidates = << >> THEN "NoCRTCFound"
            ELSE IF FindPlaneForCrtc(candidates[1], "Primary", used.primary) = None
            THEN "NoPrimaryPlaneFound"
            ELSE "none"

\* the loop of discover_monitors / handle_hotplug over the connectors in
\* `order`: allocate, set up, record the new Monitor's resources as used,
\* insert; a failure skips the connector.  gles_bad: the connectors whose
\* GLES context or property snapshot fails in this pass.
\* The loop also returns, for every Monitor it inserted, the
\* allocation that allocate_monitor_resources computed for its connector.
RECURSIVE AddMonitorsLoop(_, _, _, _, _, _, _)
AddMonitorsLoop(mons, allocs, used, order, connected, modes, gles_bad) ==
    IF order = << >> THEN [mons |-> mons, allocs |-> allocs]
    ELSE LET c == Head(order)
             allocation == AllocateMonitorResources(c, used, connected)
             monitor == MonitorSetup(c, modes[c], c \notin gles_bad)
         IN IF c \in DOMAIN mons \/ allocation = None \/ monitor = None
            THEN AddMonitorsLoop(mons, allocs, used, Tail(order), connected, modes,
                                 gles_bad)
            ELSE LET m == Unwrap(monitor)
                     used2 == [ crtcs |-> used.crtcs \cup {m.current_crtc},
                                primary |-> used.primary \cup {m.primary_plane_id},
                                cursor |-> used.cursor \cup
                                    (IF IsSome(m.cursor_plane_id)
                                     THEN {Unwrap(m.cursor_plane_id)} ELSE {}) ]
                     mons2 == [d \in DOMAIN mons \cup {c} |->
                                  IF d = c THEN m ELSE mons[d]]
                     allocs2 == allocs \cup
                                    {[connector |-> c, allocation |-> Unwrap(allocation)]}
                 IN AddMonitorsLoop(mons2, allocs2, used2, Tail(order), connected,
                                    modes, gles_bad)

\* (mutant) the first connector that fails ends the pass
AddMonitorsAbort(mons, used, order, connected, modes, gles_bad) ==
    LET failing == {i \in 1..Len(order) :
                       order[i] \notin connected \/ order[i] \in gles_bad}
        tried == IF failing = {} THEN order ELSE SubSeq(order, 1, Min(failing) - 1)
    IN AddMonitorsLoop(mons, {}, used, tried, connected, modes, gles_bad).mons
\* the monitor map the loop leaves
AddMonitors(mons, used, order, connected, modes, gles_bad) ==
    AddMonitorsLoop(mons, {}, used, order, connected, modes, gles_bad).mons

(***************************************************************************)
(* Refresh-rate groups (src/src/lib.rs).                                   *)
(***************************************************************************)
\* (mutant) every monitor is pushed onto the list of every refresh rate
RefreshRateGroupsEvery(mons) ==
    LET keys == {VRefresh(ActiveMode(mons[c])) : c \in DOMAIN mons}
    IN [hz \in keys |-> DOMAIN mons]
\* the map update_refresh_rate_groups builds
RefreshRateGroups(mons) ==
    LET keys == {VRefresh(ActiveMode(mons[c])) : c \in DOMAIN mons}
    IN [hz \in keys |-> {c \in DOMAIN mons : VRefresh(ActiveMode(mons[c])) = hz}]

\* (mutant) the slowest group is taken for the fastest
FastestGroupRefreshMin(groups) ==
    IF DOMAIN groups = {} THEN None ELSE Some(Min(DOMAIN groups))
\* self.refresh_rate_groups.keys().max().copied()
FastestGroupRefresh(groups) ==
    IF DOMAIN groups = {} THEN None ELSE Some(Max(DOMAIN groups))

\* (mutant) every connector is made pending, whatever its group
ResetFastestGroupPendingAll(groups, fastest) ==
    LET pending == UNION {groups[hz] : hz \in DOMAIN groups}
    IN [ pending |-> pending,
         flag |-> (pending = {} /\ IsSome(fastest)) ]
\* (mutant) the flag is raised whenever there is a fastest group
ResetFastestGroupPendingFlag(groups, fastest) ==
    LET pending == IF IsSome(fastest) /\ Unwrap(fastest) \in DOMAIN groups
                   THEN groups[Unwrap(fastest)] ELSE {}
    IN [ pending |-> pending, flag |-> IsSome(fastest) ]
\* (mutant) the flag is raised whenever nothing is pending
ResetFastestGroupPendingEmpty(groups, fastest) ==
    LET pending == IF IsSome(fastest) /\ Unwrap(fastest) \in DOMAIN groups
                   THEN groups[Unwrap(fastest)] ELSE {}
    IN [ pending |-> pending, flag |-> (pending = {}) ]
\* EasyDRM::reset_fastest_group_pending: the new (pending, flag)
ResetFastestGroupPending(groups, fastest) ==
    LET pending == IF IsSome(fastest) /\ Unwrap(fastest) \in DOMAIN groups
                   THEN groups[Unwrap(fastest)] ELSE {}
    IN [ pending |-> pending,
         flag |-> (pending = {} /\ IsSome(fastest)) ]

\* (mutant) the flag is raised by any member of the group, not by the last one
MarkFastGroupCommitAny(pf, c) ==
    IF c \in pf.pending
    THEN [ pending |-> pf.pending \ {c}, flag |-> TRUE ]
    ELSE pf
\* EasyDRM::mark_fast_group_commit on the pair (pending, flag)
MarkFastGroupCommit(pf, c) ==
    IF c \in pf.pending
    THEN [ pending |-> pf.pending \ {c},
           flag |-> IF pf.pending \ {c} = {} THEN TRUE ELSE pf.flag ]
    ELSE pf

RECURSIVE MarkAll(_, _)
MarkAll(pf, committed) ==
    IF committed = << >> THEN pf
    ELSE MarkAll(MarkFastGroupCommit(pf, Head(committed)), Tail(committed))

\* the members of the fastest group as the orchestrator has them
FastGroup ==
    IF IsSome(fastest_group_refresh) /\ Unwrap(fastest_group_refresh) \in DOMAIN refresh_rate_groups
    THEN refresh_rate_groups[Unwrap(fastest_group_refresh)] ELSE {}

(***************************************************************************)
(* Monitor::swap_buffers (src/src/monitor.rs).                             *)
(***************************************************************************)
\* one entry of an atomic request
Prop(obj, name, val) == [obj |-> obj, prop |-> name, val |-> val, blob |-> None]
\* an entry whose value is the property blob card.create_property_blob(mode) made
BlobProp(obj, name, mode) == [obj |-> obj, prop |-> name, val |-> 0, blob |-> Some(mode)]

\* the properties added when a mode set is needed
ModeSetProps(m, target_mode) ==
    LET width == ModeSize(target_mode)[1]
        height == ModeSize(target_mode)[2]
    IN { Prop(m.connector_id, "CRTC_ID", m.current_crtc),
         BlobProp(m.current_crtc, "MODE_ID", target_mode),
         Prop(m.current_crtc, "ACTIVE", 1),
         Prop(m.primary_plane_id, "CRTC_ID", m.current_crtc),
         Prop(m.primary_plane_id, "SRC_X", 0),
         Prop(m.primary_plane_id, "SRC_Y", 0),
         Prop(m.primary_plane_id, "SRC_W", width * 65536),
         Prop(m.primary_plane_id, "SRC_H", height * 65536),
         Prop(m.primary_plane_id, "CRTC_X", 0),
         Prop(m.primary_plane_id, "CRTC_Y", 0),
         Prop(m.primary_plane_id, "CRTC_W", width),
         Prop(m.primary_plane_id, "CRTC_H", height) }

\* (mutant) the plane's IN_FENCE_FD is preferred to the CRTC's
FencePropsPlaneFirst(m, fence_fd) ==
    IF "IN_FENCE_FD" \in m.plane_properties
    THEN {Prop(m.primary_plane_id, "IN_FENCE_FD", fence_fd)}
    ELSE IF "IN_FENCE_FD" \in m.crtc_properties
    THEN {Prop(m.current_crtc, "IN_FENCE_FD", fence_fd)}
    ELSE {}
\* the fence entry: the CRTC's IN_FENCE_FD if cached, else the plane's, else none
FenceProps(m, fence_fd) ==
    IF "IN_FENCE_FD" \in m.crtc_properties
    THEN {Prop(m.current_crtc, "IN_FENCE_FD", fence_fd)}
    ELSE IF "IN_FENCE_FD" \in m.plane_properties
    THEN {Prop(m.primary_plane_id, "IN_FENCE_FD", fence_fd)}
    ELSE {}

\* the request Monitor::swap_buffers builds and the flags it commits it with
MonitorCommit(m, fb, fence_fd) ==
    LET needs_mode_set == NeedsModeSet(m)
        target_mode == UnwrapOr(m.requested_mode, m.default_mode)
    IN [ conn |-> m.connector_id,
         flags |-> {"PAGE_FLIP_EVENT"} \cup
                   (IF needs_mode_set THEN {"ALLOW_MODESET"} ELSE {}),
         props |-> (IF needs_mode_set THEN ModeSetProps(m, target_mode) ELSE {})
                   \cup {Prop(m.primary_plane_id, "FB_ID", fb)}
                   \cup FenceProps(m, fence_fd) ]

\* card.atomic_commit(flags, req) as the kernel saw it
Submitted(commit, accepted) ==
    [ conn |-> commit.conn, flags |-> commit.flags, props |-> commit.props,
      accepted |-> accepted ]

\* (mutant) the new fence and sync are not kept for the next frame
StoreFrameNoFence(m, bo, fence_fd, sync) ==
    LET m1 == [m EXCEPT !.previous_bo = Some(bo),
                        !.first_frame = FALSE,
                        !.can_render = FALSE]
    IN IF NeedsModeSet(m) THEN MarkModeSet(m1) ELSE m1
\* the state stored after the commit went through
StoreFrame(m, bo, fence_fd, sync) ==
    LET m1 == [m EXCEPT !.previous_bo = Some(bo),
                        !.previous_fence_fd = Some(fence_fd),
                        !.previous_sync = Some(sync),
                        !.first_frame = FALSE,
                        !.can_render = FALSE]
    IN IF NeedsModeSet(m) THEN MarkModeSet(m1) ELSE m1

\* the buffer objects a Monitor keeps locked: previous_bo is its only one
HeldBuffers(m) == IF IsSome(m.previous_bo) THEN {Unwrap(m.previous_bo)} ELSE {}

\* where Monitor::swap_buffers can return an Err
\* ("fb" stands for add_framebuffer and for create_property_blob)
FailPoints == {"swap", "sync", "fence", "fb", "commit"}

\* (mutant) the frame is stored before the commit is submitted
MonitorSwapBuffersEager(m, fds0, syncs0, fail) ==
    LET held == HeldBuffers(m)
        bo == Min(BufferIds \ held)
        fds1 == fds0 \ (IF IsSome(m.previous_fence_fd)
                        THEN {Unwrap(m.previous_fence_fd)} ELSE {})
        syncs1 == syncs0 \ (IF IsSome(m.previous_sync)
                            THEN {Unwrap(m.previous_sync)} ELSE {})
        m1 == [m EXCEPT !.previous_fence_fd = None, !.previous_sync = None]
        free_syncs == (1..MaxSyncs) \ syncs1
        free_fds == (1..MaxFds) \ fds1
        sync == Min(free_syncs)
        fence_fd == Min(free_fds)
        failed(err, mm, f, s) ==
            [ok |-> FALSE, err |-> err, m |-> mm, fds |-> f, syncs |-> s,
             commit |-> IF err = "commit"
                        THEN Some(Submitted(MonitorCommit(m, bo, fence_fd), FALSE))
                        ELSE None,
             mode |-> None]
    IN IF fail = "swap" THEN failed("swap", m, fds0, syncs0)
       ELSE IF fail = "sync" \/ free_syncs = {}
       THEN failed("sync", m1, fds1, syncs1)
       ELSE IF fail = "fence" \/ free_fds = {}
       THEN failed("fence", m1, fds1, syncs1 \cup {sync})
       ELSE IF fail = "fb"
       THEN failed(fail, m1, fds1 \cup {fence_fd}, syncs1 \cup {sync})
       ELSE IF fail = "commit"
       THEN failed(fail, StoreFrame(m1, bo, fence_fd, sync),
                   fds1 \cup {fence_fd}, syncs1 \cup {sync})
       ELSE [ok |-> TRUE, err |-> "none",
             m |-> StoreFrame(m1, bo, fence_fd, sync),
             fds |-> fds1 \cup {fence_fd}, syncs |-> syncs1 \cup {sync},
             commit |-> Some(Submitted(MonitorCommit(m, bo, fence_fd), TRUE)),
             mode |-> IF NeedsModeSet(m) THEN Some(ActiveMode(m)) ELSE None]
\* Monitor::swap_buffers(card) on monitor m with the descriptor table fds0
\* and the live syncs syncs0; fail names the call that fails, "none" for none
MonitorSwapBuffers(m, fds0, syncs0, fail) ==
    LET held == HeldBuffers(m)
        \* lock_front_buffer: a buffer of the surface that is not locked
        bo == Min(BufferIds \ held)
        \* previous_fence_fd.take() / previous_sync.take(): close, destroy
        fds1 == fds0 \ (IF IsSome(m.previous_fence_fd)
                        THEN {Unwrap(m.previous_fence_fd)} ELSE {})
        syncs1 == syncs0 \ (IF IsSome(m.previous_sync)
                            THEN {Unwrap(m.previous_sync)} ELSE {})
        m1 == [m EXCEPT !.previous_fence_fd = None, !.previous_sync = None]
        free_syncs == (1..MaxSyncs) \ syncs1
        free_fds == (1..MaxFds) \ fds1
        sync == Min(free_syncs)
        fence_fd == Min(free_fds)
        failed(err, mm, f, s) ==
            [ok |-> FALSE, err |-> err, m |-> mm, fds |-> f, syncs |-> s,
             commit |-> IF err = "commit"
                        THEN Some(Submitted(MonitorCommit(m, bo, fence_fd), FALSE))
                        ELSE None,
             mode |-> None]
    IN IF fail = "swap" THEN failed("swap", m, fds0, syncs0)
       ELSE IF fail = "sync" \/ free_syncs = {}
       THEN failed("sync", m1, fds1, syncs1)
       ELSE IF fail = "fence" \/ free_fds = {}
       THEN failed("fence", m1, fds1, syncs1 \cup {sync})
       ELSE IF fail = "fb" \/ fail = "commit"
       THEN failed(fail, m1, fds1 \cup {fence_fd}, syncs1 \cup {sync})
       ELSE [ok |-> TRUE, err |-> "none",
             m |-> StoreFrame(m1, bo, fence_fd, sync),
             fds |-> fds1 \cup {fence_fd}, syncs |-> syncs1 \cup {sync},
             commit |-> Some(Submitted(MonitorCommit(m, bo, fence_fd), TRUE)),
             mode |-> IF NeedsModeSet(m) THEN Some(ActiveMode(m)) ELSE None]

(***************************************************************************)
(* EasyDRM::swap_buffers (src/src/lib.rs).                                 *)
(***************************************************************************)
\* the loop over the drawn monitors, in the order the map yields them;
\* the monitor at position fail_at fails at fail, and `?` ends the loop
RECURSIVE SwapLoop(_, _, _, _, _)
SwapLoop(st, order, i, fail_at, fail) ==
    IF i > Len(order) \/ st.err # "none" THEN st
    ELSE LET c == order[i]
             r == MonitorSwapBuffers(st.mons[c], st.fds, st.syncs,
                                     IF i = fail_at THEN fail ELSE "none")
         IN SwapLoop(
              [ mons |-> [st.mons EXCEPT ![c] =
                             IF r.ok THEN ResetDrawnFlag(r.m) ELSE r.m],
                fds |-> r.fds,
                syncs |-> r.syncs,
                err |-> r.err,
                commits |-> st.commits \cup
                            (IF IsSome(r.commit) THEN {Unwrap(r.commit)} ELSE {}),
                flips |-> st.flips \cup
                          (IF r.ok THEN {st.mons[c].current_crtc} ELSE {}),
                modes |-> IF r.ok /\ IsSome(r.mode)
                          THEN [st.modes EXCEPT ![c] = r.mode] ELSE st.modes,
                committed |-> IF r.ok THEN Append(st.committed, c)
                              ELSE st.committed ],
              order, i + 1, fail_at, fail)

\* the request EasyDRM::swap_buffers itself submits: nothing was added to it
BatchCommit(accepted) ==
    [ conn |-> 0,
      flags |-> {"PAGE_FLIP_EVENT", "ALLOW_MODESET"},
      props |-> {},
      accepted |-> accepted ]

\* what a call returned and submitted to the device
Obs(op, ok, err, ret, commits) ==
    [ op |-> op, ok |-> ok, err |-> err, ret |-> ret, commits |-> commits,
      marked |-> {}, allocs |-> {} ]
\* what swap_buffers returned and submitted, and the connectors it passed
\* to mark_fast_group_commit
SwapObs(ok, err, commits, marked) ==
    [ op |-> "swap_buffers", ok |-> ok, err |-> err, ret |-> FALSE,
      commits |-> commits, marked |-> marked, allocs |-> {} ]
\* a poll_events that ran handle_hotplug, and the allocations the pass
\* computed for the Monitors it inserted
HotplugObs(allocs) ==
    [ op |-> "hotplug", ok |-> TRUE, err |-> "none", ret |-> FALSE,
      commits |-> {}, marked |-> {}, allocs |-> allocs ]
\* a step that returned nothing to tell apart and submitted nothing
Quiet == Obs("none", TRUE, "none", FALSE, {})

\* (mutant) every live monitor is swapped
DrawnOrNot == Live
\* the monitors the loop of swap_buffers selects: was_drawn() is true
Drawn == {c \in Live : monitors[c].was_drawn}

NoModes == [c \in Connectors |-> None]

\* how a call of swap_buffers can go: all calls succeed, the final commit is
\* rejected, or the monitor at position fail_at fails at the call `fail`
SwapOutcomes ==
    {<< 0, "none", TRUE >>}
    \cup (IF faults > 0
          THEN {<< 0, "none", FALSE >>}
               \cup {<< i, f, TRUE >> : i \in 1..Cardinality(Drawn), f \in FailPoints}
          ELSE {})

\* pub fn swap_buffers(&mut self)
SwapBuffers ==
    \E order \in Orders(Drawn), outcome \in SwapOutcomes :
        LET fail_at == outcome[1]
            fail == outcome[2]
            batch_ok == outcome[3]
            st0 == [ mons |-> monitors, fds |-> fds, syncs |-> syncs,
                     err |-> "none", commits |-> {}, flips |-> page_flips,
                     modes |-> committed_mode, committed |-> << >> ]
            st == SwapLoop(st0, order, 1, fail_at, fail)
            pf == MarkAll([pending |-> fastest_group_pending,
                           flag |-> should_update_flag], st.committed)
            done == Range(st.committed)
        IN /\ monitors' = st.mons
           /\ fds' = st.fds
           /\ syncs' = st.syncs
           /\ page_flips' = st.flips
           /\ committed_mode' = st.modes
           /\ since_reset' = since_reset \cup done
           /\ cycle_done' = (cycle_done \/
                               (FastGroup # {} /\ FastGroup \subseteq since_reset'))
           /\ IF st.err # "none"
              THEN /\ UNCHANGED << fastest_group_pending, should_update_flag >>
                   /\ last' = SwapObs(FALSE, st.err, st.commits, {})
              ELSE /\ fastest_group_pending' = pf.pending
                   /\ should_update_flag' = pf.flag
                   /\ last' = SwapObs(batch_ok,
                                      IF batch_ok THEN "none" ELSE "batch_commit",
                                      st.commits \cup {BatchCommit(batch_ok)},
                                      done)
           /\ faults' = IF st.err # "none" \/ ~batch_ok THEN faults - 1 ELSE faults
           /\ UNCHANGED << refresh_rate_groups, fastest_group_refresh, drm_all,
                           uevent_socket, drm_connectors, drm_connected, drm_modes, uevents >>

\* pub fn should_update(&mut self) -> bool
ShouldUpdate ==
    LET reset == ResetFastestGroupPending(refresh_rate_groups, fastest_group_refresh)
    IN /\ IF should_update_flag
          THEN /\ fastest_group_pending' = reset.pending
               /\ should_update_flag' = reset.flag
               /\ since_reset' = {}
          ELSE UNCHANGED << fastest_group_pending, should_update_flag, since_reset >>
       /\ cycle_done' = FALSE
       /\ last' = Obs("should_update", TRUE, "none", should_update_flag, {})
       /\ UNCHANGED << monitors, refresh_rate_groups, fastest_group_refresh,
                       uevent_socket, drm_connectors, drm_connected, drm_modes, uevents,
                       page_flips, fds, syncs, drm_all, faults, committed_mode >>

\* pub fn make_current(&mut self) on the monitor of connector c
MakeCurrent(c) ==
    /\ c \in Live
    /\ \E egl_ok \in (IF faults > 0 THEN BOOLEAN ELSE {TRUE}) :
        /\ monitors' = [monitors EXCEPT ![c] = MonitorMakeCurrent(monitors[c], egl_ok)]
        /\ faults' = IF egl_ok THEN faults ELSE faults - 1
        /\ last' = IF egl_ok THEN Quiet
                   ELSE Obs("make_current", FALSE, "make_current", FALSE, {})
    /\ UNCHANGED << refresh_rate_groups, fastest_group_refresh,
                    fastest_group_pending, should_update_flag, uevent_socket,
                    drm_connectors, drm_connected, drm_modes, uevents, page_flips, fds,
                    syncs, drm_all, committed_mode, since_reset, cycle_done >>

\* pub fn set_mode(&mut self, mode) on the monitor of connector c
SetMode(c) ==
    /\ c \in Live
    /\ \E mode \in OptModes :
        monitors' = [monitors EXCEPT ![c] = MonitorSetMode(monitors[c], mode)]
    /\ last' = Quiet
    /\ UNCHANGED << refresh_rate_groups, fastest_group_refresh,
                    fastest_group_pending, should_update_flag, uevent_socket,
                    drm_connectors, drm_connected, drm_modes, uevents, page_flips, fds,
                    syncs, drm_all, faults, committed_mode, since_reset,
                    cycle_done >>

(***************************************************************************)
(* The uevent drain (src/src/hotplug.rs).                                  *)
(***************************************************************************)
\* (mutant) any DRM uevent of a connector or card counts as a hot-plug
IsDrmHotplugAnyDrm(msg) ==
    /\ "SUBSYSTEM=drm" \in msg
    /\ ("DEVTYPE=connector" \in msg \/ "DEVNAME=card" \in msg)
\* a datagram is modelled by the tokens it contains
IsDrmHotplug(msg) ==
    /\ "SUBSYSTEM=drm" \in msg
    /\ "HOTPLUG=1" \in msg
    /\ ("DEVTYPE=connector" \in msg \/ "DEVNAME=card" \in msg)

\* What one recv on the socket returns: a datagram of len bytes whose text
\* contains the patterns msg (bytes that are not UTF-8 are read as the empty
\* text), or an error.  The queue holds the results in the order recv returns
\* them; past its end recv returns EAGAIN.
Datagram(msg) == [errno |-> "none", len |-> 1, msg |-> msg]
EmptyDatagram == [errno |-> "none", len |-> 0, msg |-> {}]
RecvError(errno) == [errno |-> errno, len |-> 0, msg |-> {}]

\* the receive loop of drain_hotplug_events: Ok(found) at EAGAIN, Err(e) at
\* any other error; rest is what the socket still holds afterwards
RECURSIVE DrainLoop(_, _)
DrainLoop(queue, found) ==
    IF queue = << >>
    THEN [ok |-> TRUE, found |-> found, err |-> "none", rest |-> << >>]
    ELSE LET r == Head(queue)
         IN IF r.errno # "none"
            THEN [ok |-> FALSE, found |-> FALSE, err |-> r.errno, rest |-> Tail(queue)]
            ELSE IF r.len > 0
            THEN DrainLoop(Tail(queue), found \/ IsDrmHotplug(r.msg))
            ELSE DrainLoop(Tail(queue), found)

\* (mutant) a receive error ends the drain as EAGAIN does
DrainHotplugEventsLenient(queue) ==
    LET errors == {i \in 1..Len(queue) : queue[i].errno # "none"}
        read == IF errors = {} THEN queue ELSE SubSeq(queue, 1, Min(errors) - 1)
        rest == IF errors = {} THEN << >>
                ELSE SubSeq(queue, Min(errors) + 1, Len(queue))
    IN [DrainLoop(read, FALSE) EXCEPT !.rest = rest]
\* UEventSocket::drain_hotplug_events over the queued receive results
DrainHotplugEvents(queue) == DrainLoop(queue, FALSE)

\* the descriptor polls read-ready when a datagram is queued
ReadReady(queue) == \E i \in 1..Len(queue) : queue[i].errno = "none"

HotplugMsg == {"SUBSYSTEM=drm", "HOTPLUG=1", "DEVTYPE=connector"}
OtherMsg == {"SUBSYSTEM=drm", "DEVTYPE=connector"}

\* the patterns drain_hotplug_events looks for
Patterns == {"SUBSYSTEM=drm", "HOTPLUG=1", "DEVTYPE=connector", "DEVNAME=card"}
\* the receive results told apart by the drain
RecvResults ==
    {Datagram(msg) : msg \in SUBSET Patterns} \cup {EmptyDatagram, RecvError("ENOBUFS")}
\* the queues of at most MaxDrain receive results
RecvQueues == UNION {[1..n -> RecvResults] : n \in 0..MaxDrain}

(***************************************************************************)
(* Hot-plug reconciliation and the event loop (src/src/lib.rs).            *)
(***************************************************************************)
\* EasyDRM::update_refresh_rate_groups: the new grouping state
UpdateRefreshRateGroups(mons) ==
    LET groups == RefreshRateGroups(mons)
        fastest == FastestGroupRefresh(groups)
        reset == ResetFastestGroupPending(groups, fastest)
    IN [ groups |-> groups, fastest |-> fastest,
         pending |-> reset.pending, flag |-> reset.flag ]

\* EasyDRM::handle_hotplug: the connectors whose Monitor is dropped
Disconnected(mons, listed) == DOMAIN mons \ listed
\* EasyDRM::handle_hotplug: the connectors to try to add
NewlyConnected(mons, listed) == listed \ DOMAIN mons

\* (mutant) the pass only adds monitors
HandleHotplugKeep(mons, listed, connected, modes, order, gles_bad) ==
    AddMonitors(mons, CurrentResourceUsage(mons), order, connected, modes, gles_bad)
\* EasyDRM::handle_hotplug: the monitor map after the pass
HandleHotplug(mons, listed, connected, modes, order, gles_bad) ==
    LET kept == [c \in DOMAIN mons \cap listed |-> mons[c]]
    IN AddMonitors(kept, CurrentResourceUsage(kept), order, connected, modes, gles_bad)
\* EasyDRM::handle_hotplug: the allocations the pass computed for the
\* Monitors it inserted
HotplugAllocations(mons, listed, connected, modes, order, gles_bad) ==
    LET kept == [c \in DOMAIN mons \cap listed |-> mons[c]]
    IN AddMonitorsLoop(kept, {}, CurrentResourceUsage(kept), order, connected, modes,
                       gles_bad).allocs

\* (mutant) Drop leaves the descriptor open
DroppedFdsNone(mons, gone) == {}
\* Drop for Monitor: the descriptors and syncs the dropped monitors held
DroppedFds(mons, gone) ==
    {Unwrap(mons[c].previous_fence_fd) :
        c \in {d \in gone : IsSome(mons[d].previous_fence_fd)}}
DroppedSyncs(mons, gone) ==
    {Unwrap(mons[c].previous_sync) :
        c \in {d \in gone : IsSome(mons[d].previous_sync)}}

\* (mutant) any wake-up makes every monitor renderable
HandleDrmEventsAny(mons, events) ==
    [c \in DOMAIN mons |-> SetCanRender(mons[c], TRUE)]
\* EasyDRM::handle_drm_events: a page flip of a CRTC makes its monitors renderable
HandleDrmEvents(mons, events) ==
    [c \in DOMAIN mons |->
        IF mons[c].current_crtc \in events THEN SetCanRender(mons[c], TRUE)
        ELSE mons[c]]

\* the connectors whose Monitor::setup the environment makes fail in one pass
SetupFaults(candidates) == {B \in SUBSET candidates : Cardinality(B) <= faults}

\* (mutant) a drain that failed counts as a hot-plug
HotplugDetectedOnError(ready, drained) == ready /\ (~drained.ok \/ drained.found)
\* poll_events_ex: hotplug_ready && drain_hotplug_events().unwrap_or(false)
HotplugDetected(ready, drained) == ready /\ drained.ok /\ drained.found

\* the sets of handles allocate_monitor_resources can be told are in use
UsedSets ==
    [ crtcs : SUBSET Range(Crtcs),
      primary : SUBSET {p \in Range(PlaneList) : PlaneTypeOf(p) = "Primary"},
      cursor : SUBSET {p \in Range(PlaneList) : PlaneTypeOf(p) = "Cursor"} ]

\* what allocate_monitor_resources was given and what it returned
AllocObs(c, used, connected) ==
    [ op |-> "allocate_monitor_resources",
      ok |-> IsSome(AllocateMonitorResources(c, used, connected)),
      err |-> AllocationError(c, used, connected),
      ret |-> FALSE, commits |-> {}, marked |-> {}, allocs |-> {},
      connector |-> c, used |-> used, connected |-> c \in connected,
      allocation |-> AllocateMonitorResources(c, used, connected) ]

\* EasyDRM::allocate_monitor_resources called once for a connector
Allocate ==
    /\ last.op = "none"
    /\ \E c \in Connectors, used \in UsedSets, connected \in SUBSET Connectors :
          last' = AllocObs(c, used, connected)
    /\ UNCHANGED << monitors, refresh_rate_groups, fastest_group_refresh,
                    fastest_group_pending, should_update_flag, uevent_socket,
                    drm_connectors, drm_connected, drm_modes, uevents, page_flips,
                    fds, syncs, drm_all, faults, committed_mode, since_reset,
                    cycle_done >>

\* what drain_hotplug_events returned, and the receive results it consumed
DrainObs(r, read) ==
    [ op |-> "drain_hotplug_events", ok |-> r.ok, err |-> r.err, ret |-> r.found,
      commits |-> {}, marked |-> {}, allocs |-> {}, read |-> read ]

\* UEventSocket::drain_hotplug_events called on the socket
Drain ==
    /\ uevent_socket
    /\ LET r == DrainHotplugEvents(uevents)
       IN /\ uevents' = r.rest
          /\ last' = DrainObs(r, SubSeq(uevents, 1, Len(uevents) - Len(r.rest)))
    /\ UNCHANGED << monitors, refresh_rate_groups, fastest_group_refresh,
                    fastest_group_pending, should_update_flag, uevent_socket,
                    drm_connectors, drm_connected, drm_modes, page_flips, fds, syncs,
                    drm_all, faults, committed_mode, since_reset, cycle_done >>

\* pub fn poll_events(&mut self): returns once a descriptor is readable
PollEvents ==
    \E events \in SUBSET page_flips :
        LET hotplug_ready == uevent_socket /\ ReadReady(uevents)
            drm_ready == events # {}
            drained == DrainHotplugEvents(uevents)
            found == HotplugDetected(hotplug_ready, drained)
            gone == Disconnected(monitors, drm_connectors)
            fresh == NewlyConnected(monitors, drm_connectors)
            needs_update == gone # {} \/ fresh # {}
        IN /\ hotplug_ready \/ drm_ready
           /\ uevents' = IF hotplug_ready THEN drained.rest ELSE uevents
           /\ page_flips' = page_flips \ events
           /\ IF found
              THEN \E order \in Orders(fresh), gles_bad \in SetupFaults(fresh \cap drm_connected) :
                    \E mons1 \in {HandleHotplug(monitors, drm_connectors, drm_connected,
                                               drm_modes, order, gles_bad)} :
                    LET allocs == HotplugAllocations(monitors, drm_connectors,
                                                     drm_connected, drm_modes, order,
                                                     gles_bad)
                        g == UpdateRefreshRateGroups(mons1)
                    IN /\ monitors' = HandleDrmEvents(mons1, events)
                       /\ last' = HotplugObs(allocs)
                       /\ faults' = faults - Cardinality(gles_bad)
                       /\ fds' = fds \ DroppedFds(monitors, gone)
                       /\ syncs' = syncs \ DroppedSyncs(monitors, gone)
                       /\ committed_mode' =
                            [c \in Connectors |->
                                IF c \in DOMAIN mons1 /\ c \in Live
                                THEN committed_mode[c] ELSE None]
                       /\ IF needs_update
                          THEN /\ refresh_rate_groups' = g.groups
                               /\ fastest_group_refresh' = g.fastest
                               /\ fastest_group_pending' = g.pending
                               /\ should_update_flag' = g.flag
                               /\ since_reset' = {}
                          ELSE UNCHANGED << refresh_rate_groups, fastest_group_refresh,
                                            fastest_group_pending, should_update_flag,
                                            since_reset >>
              ELSE /\ monitors' = HandleDrmEvents(monitors, events)
                   /\ UNCHANGED << refresh_rate_groups, fastest_group_refresh,
                                   fastest_group_pending, should_update_flag,
                                   fds, syncs, faults, committed_mode, since_reset >>
                   /\ last' = Quiet
           /\ UNCHANGED << uevent_socket, drm_connectors, drm_connected, drm_modes, drm_all,
                           cycle_done >>

(***************************************************************************)
(* The kernel.                                                             *)
(***************************************************************************)
\* one connector appears, disappears, or has a display plugged or unplugged;
\* a uevent is queued on the socket if there is one and its buffer has room
KernelHotplug ==
    \E c \in drm_all :
        /\ \/ /\ c \notin drm_connectors
              /\ drm_connectors' = drm_connectors \cup {c}
              /\ UNCHANGED << drm_connected, drm_modes >>
           \/ /\ c \in drm_connectors
              /\ drm_connectors' = drm_connectors \ {c}
              /\ drm_connected' = drm_connected \ {c}
              /\ drm_modes' = [drm_modes EXCEPT ![c] = << >>]
           \/ /\ c \in drm_connectors \ drm_connected
              /\ drm_connected' = drm_connected \cup {c}
              /\ \E display \in Displays(c) :
                    drm_modes' = [drm_modes EXCEPT ![c] = display]
              /\ UNCHANGED drm_connectors
           \/ /\ c \in drm_connected
              /\ drm_connected' = drm_connected \ {c}
              /\ drm_modes' = [drm_modes EXCEPT ![c] = << >>]
              /\ UNCHANGED drm_connectors
        /\ uevents' = IF uevent_socket /\ Len(uevents) < MaxUevents
                      THEN Append(uevents, Datagram(HotplugMsg)) ELSE uevents
        /\ last' = Quiet
        /\ UNCHANGED << monitors, refresh_rate_groups, fastest_group_refresh,
                        fastest_group_pending, should_update_flag, uevent_socket,
                        page_flips, fds, syncs, drm_all, faults, committed_mode,
                        since_reset, cycle_done >>

\* a uevent that is no DRM hot-plug arrives
KernelUevent ==
    /\ uevent_socket
    /\ Len(uevents) < MaxUevents
    /\ uevents' = Append(uevents, Datagram(OtherMsg))
    /\ last' = Quiet
    /\ UNCHANGED << monitors, refresh_rate_groups, fastest_group_refresh,
                    fastest_group_pending, should_update_flag, uevent_socket,
                    drm_connectors, drm_connected, drm_modes, page_flips, fds, syncs,
                    drm_all, faults, committed_mode, since_reset, cycle_done >>

\* a uevent arrives while the socket's buffer is full: the kernel drops it
\* and the next recv returns ENOBUFS before the datagrams still queued
KernelOverrun ==
    /\ uevent_socket
    /\ Len(uevents) >= MaxUevents
    /\ uevents[1].errno = "none"
    /\ uevents' = << RecvError("ENOBUFS") >> \o uevents
    /\ last' = Quiet
    /\ UNCHANGED << monitors, refresh_rate_groups, fastest_group_refresh,
                    fastest_group_pending, should_update_flag, uevent_socket,
                    drm_connectors, drm_connected, drm_modes, page_flips, fds, syncs,
                    drm_all, faults, committed_mode, since_reset, cycle_done >>

(***************************************************************************)
(* EasyDRM::init and the specification.                                    *)
(***************************************************************************)
\* EasyDRM::discover_monitors from an empty map
DiscoverMonitors(listed, connected, modes, gles_bad) ==
    AddMonitors(<< >>, CurrentResourceUsage(<< >>), Ascending(listed),
                connected, modes, gles_bad)

\* the state EasyDRM::init returns, on a device that can list the
\* connectors `all`, with or without a uevent socket, in an environment
\* that may inject `budget` failures, with one of `queues` waiting on the
\* uevent socket
InitState(all, sockets, budget, queues) ==
    /\ drm_all = all
    /\ drm_connectors \in SUBSET all
    /\ drm_connected \in SUBSET drm_connectors
    /\ drm_modes \in [Connectors -> UNION {Displays(c) : c \in Connectors} \cup {<< >>}]
    /\ \A c \in Connectors :
          drm_modes[c] \in (IF c \in drm_connected THEN Displays(c) ELSE {<< >>})
    /\ uevent_socket \in sockets
    /\ \E gles_bad \in {B \in SUBSET drm_connected : Cardinality(B) <= budget} :
        /\ monitors = DiscoverMonitors(drm_connectors, drm_connected, drm_modes,
                                       gles_bad)
        /\ faults = budget - Cardinality(gles_bad)
    /\ LET g == UpdateRefreshRateGroups(monitors)
       IN /\ refresh_rate_groups = g.groups
          /\ fastest_group_refresh = g.fastest
          /\ fastest_group_pending = g.pending
          /\ should_update_flag = g.flag
    /\ uevents \in queues
    /\ page_flips = {}
    /\ fds = {}
    /\ syncs = {}
    /\ committed_mode = NoModes
    /\ since_reset = {}
    /\ cycle_done = FALSE
    /\ last = Quiet

\* the same, with nothing queued on the uevent socket yet
InitWith(all, sockets, budget) == InitState(all, sockets, budget, {<< >>})

\* a device with two connectors, an application that keeps the preferred
\* modes, an environment in which no call fails
Init == InitWith(Connectors, {TRUE}, 0)

\* a device with one connector, an application that also changes modes, an
\* environment that injects failures
InitMonitor == InitWith({1}, {TRUE}, MaxFaults)

NextBase ==
    \/ SwapBuffers
    \/ ShouldUpdate
    \/ \E c \in Connectors : MakeCurrent(c)
    \/ PollEvents
    \/ KernelHotplug

Next ==
    \/ NextBase
    \/ \E c \in Connectors : SetMode(c)

\* a device with two connected connectors, a 60 Hz and a 120 Hz display, and
\* no uevent socket, an environment that injects failures
InitBatch ==
    /\ InitWith(Connectors, {FALSE}, MaxFaults)
    /\ drm_connected = Connectors
    /\ drm_modes = << << Mode1080, Mode720 >>, << Mode720, Mode1080 >> >>

NextBatch ==
    \/ SwapBuffers
    \/ ShouldUpdate
    \/ \E c \in Connectors : MakeCurrent(c)
    \/ PollEvents

\* a device with two connectors whose displays come and go, an application
\* that only polls and makes contexts current, an environment that injects
\* failures
InitHotplug == InitWith(Connectors, {TRUE}, MaxFaults)

NextHotplug ==
    \/ PollEvents
    \/ KernelHotplug
    \/ \E c \in Connectors : MakeCurrent(c)

Spec == Init /\ [][NextBase]_vars

SpecHotplug == InitHotplug /\ [][NextHotplug]_vars

\* a device with one connector, with or without a uevent socket, whose
\* socket buffer can overrun
InitPoll == InitWith({1}, {TRUE, FALSE}, 0)

NextPoll ==
    \/ NextBase
    \/ KernelUevent
    \/ KernelOverrun

SpecPoll == InitPoll /\ [][NextPoll]_vars

\* the allocator alone, on a device that lists no connector yet
InitAlloc == InitWith({}, {FALSE}, 0)

SpecAlloc == InitAlloc /\ [][Allocate]_vars

\* the uevent socket alone: any queue of receive results, drained
InitDrain == InitState({}, {TRUE}, 0, RecvQueues)

SpecDrain == InitDrain /\ [][Drain]_vars

SpecBatch == InitBatch /\ [][NextBatch]_vars

SpecMonitor == InitMonitor /\ [][Next]_vars

(***************************************************************************)
(* Properties.                                                             *)
(***************************************************************************)
\* the commits of the last call that the kernel accepted for connector c
AcceptedFor(obs, c) == {k \in obs.commits : k.conn = c /\ k.accepted}
\* the names of the properties a commit sets on the object obj
PropNames(k, obj) == {p.prop : p \in {q \in k.props : q.obj = obj}}
\* the value a commit gives to a property of an object
PropVal(k, obj, name) ==
    (CHOOSE p \in k.props : p.obj = obj /\ p.prop = name).val
PropBlob(k, obj, name) ==
    (CHOOSE p \in k.props : p.obj = obj /\ p.prop = name).blob
\* the mode-set part of a commit
ModeSetPlaneNames ==
    {"CRTC_ID", "SRC_X", "SRC_Y", "SRC_W", "SRC_H",
     "CRTC_X", "CRTC_Y", "CRTC_W", "CRTC_H"}
\* commit k of monitor m carries every mode-set property, for the mode `mode`
CarriesModeSet(k, m, mode) ==
    /\ "CRTC_ID" \in PropNames(k, m.connector_id)
    /\ PropVal(k, m.connector_id, "CRTC_ID") = m.current_crtc
    /\ {"MODE_ID", "ACTIVE"} \subseteq PropNames(k, m.current_crtc)
    /\ PropBlob(k, m.current_crtc, "MODE_ID") = Some(mode)
    /\ PropVal(k, m.current_crtc, "ACTIVE") = 1
    /\ ModeSetPlaneNames \subseteq PropNames(k, m.primary_plane_id)
    /\ PropVal(k, m.primary_plane_id, "CRTC_ID") = m.current_crtc
    /\ PropVal(k, m.primary_plane_id, "SRC_W") = mode.w * 65536
    /\ PropVal(k, m.primary_plane_id, "SRC_H") = mode.h * 65536
    /\ PropVal(k, m.primary_plane_id, "CRTC_W") = mode.w
    /\ PropVal(k, m.primary_plane_id, "CRTC_H") = mode.h
\* commit k of monitor m carries no mode-set property at all
CarriesNoModeSet(k, m) ==
    /\ PropNames(k, m.connector_id) = {}
    /\ PropNames(k, m.current_crtc) \cap {"MODE_ID", "ACTIVE"} = {}
    /\ PropNames(k, m.primary_plane_id) \cap ModeSetPlaneNames = {}
HasFramebuffer(k, m) == "FB_ID" \in PropNames(k, m.primary_plane_id)

\* C1: any two distinct live Monitors have different CRTCs, different primary
\* planes, and different cursor planes when both hold one.
C1_ResourceDisjoint ==
    \A a, b \in Live :
        a # b =>
            /\ monitors[a].current_crtc # monitors[b].current_crtc
            /\ monitors[a].primary_plane_id # monitors[b].primary_plane_id
            /\ (IsSome(monitors[a].cursor_plane_id) /\ IsSome(monitors[b].cursor_plane_id)
                  => monitors[a].cursor_plane_id # monitors[b].cursor_plane_id)

\* C2: can_render is true at setup, and it goes from false to true only in a
\* step that takes a page-flip event of the Monitor's CRTC off the event queue.
C2_CanRenderOnlyByPageFlip ==
    /\ \A c \in Live : monitors[c].can_render
    /\ [][ /\ \A c \in Live' \ Live : monitors'[c].can_render
           /\ \A c \in Live \cap Live' :
                (~monitors[c].can_render /\ monitors'[c].can_render)
                    => /\ monitors[c].current_crtc \in page_flips
                       /\ monitors[c].current_crtc \notin page_flips' ]_vars
\* a Monitor that has committed a frame is renderable again
C2_Witness ==
    \E c \in Live : IsSome(monitors[c].previous_bo) /\ monitors[c].can_render

\* C3: a swap_buffers call whose atomic commit fails leaves
\* fastest_group_pending and should_update_flag unchanged.
C3_MarkOnlyAfterCommit ==
    [][ (last'.op = "swap_buffers" /\ last'.err \in {"commit", "batch_commit"})
            => UNCHANGED << fastest_group_pending, should_update_flag >> ]_vars

\* C4: a should_update() that returns true clears the flag and refills
\* fastest_group_pending with the whole fastest group, and the flag is set
\* only when every member of the fastest group was in a commit batch since
\* that refill.
C4_OncePerCycle ==
    /\ [](should_update_flag => (FastGroup # {} /\ FastGroup \subseteq since_reset))
    /\ [][ (last'.op = "should_update" /\ last'.ret)
              => /\ should_update_flag
                 /\ ~should_update_flag'
                 /\ FastGroup' # {}
                 /\ fastest_group_pending' = FastGroup'
                 /\ since_reset' = {} ]_vars
\* should_update() has just returned true for a fastest group of two monitors
C4_Witness ==
    last.op = "should_update" /\ last.ret /\ Cardinality(FastGroup) = 2

\* C5: once every member of the fastest group has been committed, the next
\* call of should_update() returns true, whatever poll_events did in between.
C5_PulseDelivered ==
    [][ (last'.op = "should_update" /\ cycle_done) => last'.ret ]_vars

\* C6: the first commit of a Monitor on which set_mode was never called
\* carries the mode-set properties for default_mode and FB_ID, and leaves
\* current_mode = default_mode and can_render = false.
C6_FirstFrameModeSet ==
    [][ \A c \in Live \cap Live' :
          (last'.op = "swap_buffers" /\ monitors[c].first_frame
             /\ AcceptedFor(last', c) # {})
            => /\ \A k \in AcceptedFor(last', c) :
                    /\ CarriesModeSet(k, monitors[c], monitors[c].default_mode)
                    /\ HasFramebuffer(k, monitors[c])
               /\ monitors'[c].current_mode = Some(monitors[c].default_mode)
               /\ ~monitors'[c].can_render ]_vars

\* C7: after an accepted commit that performed a mode set, current_mode =
\* requested_mode; an accepted commit without one leaves current_mode as it was.
C7_CurrentIsRequestedAfterModeSet ==
    [][ \A c \in Live \cap Live' : \A k \in AcceptedFor(last', c) :
          last'.op = "swap_buffers"
            => IF "MODE_ID" \in PropNames(k, monitors[c].current_crtc)
               THEN /\ monitors'[c].current_mode = monitors'[c].requested_mode
                    /\ monitors'[c].requested_mode = monitors[c].requested_mode
               ELSE monitors'[c].current_mode = monitors[c].current_mode ]_vars
\* a mode set for a requested mode has just been committed
C7_Witness ==
    \E c \in Live : \E k \in AcceptedFor(last, c) :
        /\ last.op = "swap_buffers"
        /\ "MODE_ID" \in PropNames(k, monitors[c].current_crtc)
        /\ IsSome(monitors[c].requested_mode)
        /\ monitors[c].current_mode = monitors[c].requested_mode

\* C8: current_mode is the mode of the most recent accepted mode-set commit,
\* and None only while there was none.
C8_CurrentModeTracksHardware ==
    \A c \in Live : monitors[c].current_mode = committed_mode[c]

\* C9: a commit carries the mode-set properties exactly when requested_mode
\* differed from current_mode as it was prepared, FB_ID is in every commit,
\* and an accepted commit leaves requested_mode = current_mode, so that the
\* next one carries FB_ID alone unless set_mode is called in between.
C9_ModeSetIffNeeded ==
    [][ \A c \in Live \cap Live' :
          \A k \in {j \in last'.commits : j.conn = c} :
            last'.op = "swap_buffers"
              => /\ IF monitors[c].requested_mode # monitors[c].current_mode
                    THEN CarriesModeSet(k, monitors[c], ActiveMode(monitors[c]))
                    ELSE CarriesNoModeSet(k, monitors[c])
                 /\ HasFramebuffer(k, monitors[c])
                 /\ k.accepted =>
                      monitors'[c].requested_mode = monitors'[c].current_mode ]_vars
\* a steady-state commit: a mode is programmed and the commit carries FB_ID alone
C9_Witness ==
    \E c \in Live : \E k \in AcceptedFor(last, c) :
        /\ last.op = "swap_buffers"
        /\ IsSome(monitors[c].current_mode)
        /\ CarriesNoModeSet(k, monitors[c])
        /\ HasFramebuffer(k, monitors[c])

\* C10: a step that changes a Monitor's requested_mode changes nothing else
\* of it and submits nothing; the next accepted commit of that Monitor, if the
\* requested mode differs from current_mode, carries MODE_ID for it and
\* leaves current_mode equal to it.
C10_SetModeTakesEffectAtCommit ==
    [][ \A c \in Live \cap Live' :
          /\ monitors'[c].requested_mode # monitors[c].requested_mode
               => /\ monitors'[c] = [monitors[c] EXCEPT
                                       !.requested_mode = monitors'[c].requested_mode]
                  /\ last'.commits = {}
                  /\ UNCHANGED << page_flips, fds, syncs, committed_mode >>
          /\ \A k \in AcceptedFor(last', c) :
               (last'.op = "swap_buffers"
                  /\ monitors[c].requested_mode # monitors[c].current_mode)
                 => /\ "MODE_ID" \in PropNames(k, monitors[c].current_crtc)
                    /\ PropBlob(k, monitors[c].current_crtc, "MODE_ID")
                         = Some(UnwrapOr(monitors[c].requested_mode,
                                         monitors[c].default_mode))
                    /\ monitors'[c].current_mode = monitors[c].requested_mode ]_vars
\* a requested mode other than the preferred one has taken effect
C10_Witness ==
    \E c \in Live : \E k \in AcceptedFor(last, c) :
        /\ last.op = "swap_buffers"
        /\ IsSome(monitors[c].current_mode)
        /\ Unwrap(monitors[c].current_mode) # monitors[c].default_mode
        /\ PropBlob(k, monitors[c].current_crtc, "MODE_ID") = monitors[c].current_mode

\* the fence descriptors and the syncs the live Monitors hold
HeldFds ==
    {Unwrap(monitors[c].previous_fence_fd) :
        c \in {d \in Live : IsSome(monitors[d].previous_fence_fd)}}
HeldSyncs ==
    {Unwrap(monitors[c].previous_sync) :
        c \in {d \in Live : IsSome(monitors[d].previous_sync)}}
\* the fence descriptor commit k of monitor m waits for
FenceOf(k, m) ==
    IF "IN_FENCE_FD" \in PropNames(k, m.current_crtc)
    THEN PropVal(k, m.current_crtc, "IN_FENCE_FD")
    ELSE PropVal(k, m.primary_plane_id, "IN_FENCE_FD")

\* C11: the buffer locked for frame N is still held by the Monitor after the
\* commit of frame N+1 (it is released only when frame N+2 replaces it).
C11_TwoDeepRetention ==
    [][ \A c \in Live \cap Live' :
          (last'.op = "swap_buffers" /\ AcceptedFor(last', c) # {}
             /\ IsSome(monitors[c].previous_bo))
            => Unwrap(monitors[c].previous_bo) \in HeldBuffers(monitors'[c]) ]_vars

\* C12: the fence and sync a Monitor holds are those its latest accepted
\* commit created and they stay open while held; the commit that replaces
\* them releases the old ones, so the count of open descriptors and of live
\* syncs grows only with a Monitor's first commit; a descriptor or sync that
\* is open but not held comes from a call that failed, never from an
\* accepted commit.
C12_FenceLifecycle ==
    /\ [](HeldFds \subseteq fds /\ HeldSyncs \subseteq syncs)
    /\ [](Cardinality(fds \ HeldFds) <= MaxFaults - faults
          /\ Cardinality(syncs \ HeldSyncs) <= MaxFaults - faults)
    /\ [](\A c \in Live :
            /\ IsSome(monitors[c].previous_fence_fd) <=> IsSome(monitors[c].previous_sync)
            /\ IsSome(monitors[c].previous_fence_fd) => IsSome(monitors[c].previous_bo))
    /\ [][ \A c \in Live \cap Live' : \A k \in AcceptedFor(last', c) :
             last'.op = "swap_buffers"
               => /\ monitors'[c].previous_fence_fd = Some(FenceOf(k, monitors[c]))
                  /\ FenceOf(k, monitors[c]) \in fds'
                  /\ IsSome(monitors'[c].previous_sync)
                  /\ Unwrap(monitors'[c].previous_sync) \in syncs' ]_vars
    /\ [][ (last'.op = "swap_buffers" /\ last'.err \in {"none", "batch_commit"})
             => LET first == {c \in last'.marked : ~IsSome(monitors[c].previous_fence_fd)}
                IN /\ Cardinality(fds') = Cardinality(fds) + Cardinality(first)
                   /\ Cardinality(syncs') = Cardinality(syncs) + Cardinality(first) ]_vars
\* a Monitor has committed at least twice and holds the fence of its last commit
C12_Witness ==
    \E c \in Live : \E k \in AcceptedFor(last, c) :
        /\ last.op = "swap_buffers"
        /\ monitors[c].previous_bo = Some(2)
        /\ monitors[c].previous_fence_fd = Some(FenceOf(k, monitors[c]))

\* C13: a step that removes Monitors closes exactly the descriptors and
\* destroys exactly the syncs they held, and leaves those of the remaining
\* Monitors open; no descriptor or sync is held by two Monitors.
C13_DropReleasesOnce ==
    /\ [](\A a, b \in Live :
            a # b =>
              /\ IsSome(monitors[a].previous_fence_fd)
                   => monitors[a].previous_fence_fd # monitors[b].previous_fence_fd
              /\ IsSome(monitors[a].previous_sync)
                   => monitors[a].previous_sync # monitors[b].previous_sync)
    /\ [][ LET gone == Live \ Live'
               gone_fds == {Unwrap(monitors[c].previous_fence_fd) :
                              c \in {d \in gone : IsSome(monitors[d].previous_fence_fd)}}
               gone_syncs == {Unwrap(monitors[c].previous_sync) :
                                c \in {d \in gone : IsSome(monitors[d].previous_sync)}}
           IN gone # {}
                => /\ fds' = fds \ gone_fds
                   /\ syncs' = syncs \ gone_syncs
                   /\ Cardinality(fds') = Cardinality(fds) - Cardinality(gone_fds)
                   /\ Cardinality(syncs') = Cardinality(syncs) - Cardinality(gone_syncs)
                   /\ \A c \in Live \cap Live' :
                        /\ monitors'[c].previous_fence_fd = monitors[c].previous_fence_fd
                        /\ monitors'[c].previous_sync = monitors[c].previous_sync ]_vars
\* a Monitor that held descriptor 1 was removed; the other one still holds 2
C13_Witness ==
    /\ last.op = "hotplug"
    /\ Cardinality(Live) = 1
    /\ fds = {2}
    /\ syncs = {2}
    /\ \E c \in Live : monitors[c].previous_fence_fd = Some(2)

\* the monitors whose was_drawn flag the step cleared
ClearedDrawn == {c \in Live \cap Live' : monitors[c].was_drawn /\ ~monitors'[c].was_drawn}

C15_OneCommitPerSwap ==
    [][ last'.op = "swap_buffers"
          => /\ Cardinality(last'.commits) = 1
             /\ \A k \in last'.commits :
                  /\ k.flags = {"PAGE_FLIP_EVENT", "ALLOW_MODESET"}
                  /\ \A c \in Drawn : HasFramebuffer(k, monitors[c]) ]_vars

\* C16: fastest_group_refresh is the largest key of refresh_rate_groups, and
\* it is None exactly when there is no live Monitor.
C16_FastestIsMaxKey ==
    /\ (Live = {}) <=> (fastest_group_refresh = None)
    /\ (DOMAIN refresh_rate_groups = {}) <=> (fastest_group_refresh = None)
    /\ IsSome(fastest_group_refresh)
         => /\ Unwrap(fastest_group_refresh) \in DOMAIN refresh_rate_groups
            /\ \A hz \in DOMAIN refresh_rate_groups : hz <= Unwrap(fastest_group_refresh)
\* after a hot-plug pass there are two groups and the faster one is chosen
C16_Witness ==
    /\ last.op = "hotplug"
    /\ Cardinality(DOMAIN refresh_rate_groups) = 2
    /\ fastest_group_refresh = Some(120)

\* C17: fastest_group_pending is a subset of the group of
\* fastest_group_refresh, and empty when there is none.
C17_PendingWithinFastestGroup ==
    IF IsSome(fastest_group_refresh)
    THEN /\ Unwrap(fastest_group_refresh) \in DOMAIN refresh_rate_groups
         /\ fastest_group_pending
              \subseteq refresh_rate_groups[Unwrap(fastest_group_refresh)]
    ELSE fastest_group_pending = {}
\* should_update() has just refilled the pending set while a slower group exists
C17_Witness ==
    /\ last.op = "should_update"
    /\ last.ret
    /\ Cardinality(DOMAIN refresh_rate_groups) = 2
    /\ fastest_group_pending # {}

\* C18: should_update_flag implies that fastest_group_pending is empty and
\* fastest_group_refresh is present.
C18_FlagImpliesCycleComplete ==
    should_update_flag => (fastest_group_pending = {} /\ IsSome(fastest_group_refresh))
\* the flag was raised by a swap_buffers that completed the fastest group
C18_Witness ==
    /\ should_update_flag
    /\ last.op = "swap_buffers"
    /\ last.marked # {}
    /\ Cardinality(Live) = 2

\* C19: every live Monitor's connector is listed in the group keyed by the
\* refresh rate of its active mode, and in no other group.
C19_GroupKeyIsActiveRefresh ==
    \A c \in Live : \A hz \in DOMAIN refresh_rate_groups :
        (c \in refresh_rate_groups[hz]) <=> (hz = VRefresh(ActiveMode(monitors[c])))

\* C20: a poll_events call that handles a hot-plug event leaves no Monitor
\* for a connector the device no longer lists; it keeps every other Monitor
\* as it was (but for can_render, which a page flip handled by the same call
\* sets); when it removed a Monitor the groups and fastest_group_refresh are
\* those of the remaining monitors.
C20_DisconnectReconciled ==
    [][ last'.op = "hotplug"
          => /\ \A c \in Live \ drm_connectors : c \notin Live'
             /\ \A c \in Live \cap drm_connectors :
                  /\ c \in Live'
                  /\ \/ monitors'[c] = monitors[c]
                     \/ /\ monitors'[c] = [monitors[c] EXCEPT !.can_render = TRUE]
                        /\ monitors[c].current_crtc \in page_flips \ page_flips'
             /\ Live \ drm_connectors # {}
                  => /\ DOMAIN refresh_rate_groups'
                          = {VRefresh(ActiveMode(monitors'[c])) : c \in Live'}
                     /\ \A hz \in DOMAIN refresh_rate_groups' :
                          refresh_rate_groups'[hz]
                            = {c \in Live' : VRefresh(ActiveMode(monitors'[c])) = hz}
                     /\ fastest_group_refresh'
                          = IF Live' = {} THEN None
                            ELSE Some(Max({VRefresh(ActiveMode(monitors'[c])) : c \in Live'}))
                     /\ fastest_group_pending' = FastGroup' ]_vars
\* of two monitors that had committed, one was removed and the other is kept
C20_Witness ==
    /\ last.op = "hotplug"
    /\ Cardinality(Live) = 1
    /\ Live = drm_connectors
    /\ syncs = {2}
    /\ \E c \in Live :
          /\ monitors[c].previous_sync = Some(2)
          /\ DOMAIN refresh_rate_groups = {VRefresh(monitors[c].default_mode)}


(***************************************************************************)
(* Hot-plug, the uevent drain and resource allocation.                     *)
(***************************************************************************)
\* C21: when no Monitor exists and a poll_events call drains a qualifying
\* uevent while exactly one connector is Connected, the call leaves exactly
\* one Monitor, the one of that connector, with no requested and no current
\* mode, renderable, not drawn, whose active mode is the first mode the
\* connector reports, and fastest_group_refresh is that mode's refresh rate.
C21_ZeroStartHotplug ==
    [][ (Live = {} /\ last'.op = "hotplug" /\ Cardinality(drm_connected) = 1)
        => \E c \in drm_connected :
              /\ DOMAIN monitors' = {c}
              /\ monitors'[c].requested_mode = None
              /\ monitors'[c].current_mode = None
              /\ monitors'[c].can_render
              /\ ~monitors'[c].was_drawn
              /\ ActiveMode(monitors'[c]) = drm_modes[c][1]
              /\ fastest_group_refresh' = Some(VRefresh(drm_modes[c][1])) ]_vars
\* the second connector was plugged after a start without monitors, and the
\* poll that followed set up its Monitor
C21_Witness ==
    /\ last.op = "hotplug"
    /\ Live = {2} /\ drm_connected = {2}
    /\ Cardinality(last.allocs) = 1
    /\ fds = {} /\ committed_mode = NoModes
    /\ ActiveMode(monitors[2]) = Mode720
    /\ fastest_group_refresh = Some(120)


\* C22: while no Monitor exists (a start without connected displays
\* included), there is no group, nothing is pending and the update flag is
\* down; swap_buffers succeeds and changes nothing, should_update returns
\* false and changes nothing, and only a hot-plug pass ends the condition.
C22_NoMonitorsIsStable ==
    /\ [](Live = {} => /\ DOMAIN refresh_rate_groups = {}
                       /\ fastest_group_refresh = None
                       /\ fastest_group_pending = {}
                       /\ ~should_update_flag)
    /\ [][ (Live = {} /\ last'.op = "swap_buffers")
           => /\ last'.ok
              /\ UNCHANGED << monitors, refresh_rate_groups, fastest_group_refresh,
                              fastest_group_pending, should_update_flag, fds, syncs,
                              page_flips >> ]_vars
    /\ [][ (Live = {} /\ last'.op = "should_update")
           => /\ ~last'.ret
              /\ UNCHANGED << monitors, refresh_rate_groups, fastest_group_refresh,
                              fastest_group_pending, should_update_flag, fds, syncs,
                              page_flips >> ]_vars
    /\ [][ (Live = {} /\ last'.op # "hotplug") => DOMAIN monitors' = {} ]_vars
\* swap_buffers returned Ok on an instance without monitors
C22_Witness ==
    /\ Live = {}
    /\ last.op = "swap_buffers" /\ last.ok
    /\ last.marked = {}


\* C23: a hot-plug pass that neither removes nor adds a Monitor leaves
\* refresh_rate_groups, fastest_group_refresh, fastest_group_pending and
\* should_update_flag as they were.
C23_RegroupOnlyOnTopologyChange ==
    [][ (last'.op = "hotplug" /\ DOMAIN monitors' = DOMAIN monitors)
        => UNCHANGED << refresh_rate_groups, fastest_group_refresh,
                        fastest_group_pending, should_update_flag >> ]_vars


\* C24: discovery and a hot-plug pass are best-effort.  A connector whose
\* allocation fails (no display) or whose Monitor::setup fails gets no
\* Monitor, the pass still returns Ok, every Monitor that was there and is
\* kept is as it was (but for can_render, which a page flip of the same
\* wake may set), and every other connector with a display that had no
\* Monitor gets one: the connectors left without a Monitor are exactly as
\* many as the setups that failed.
C24_BestEffortPerConnector ==
    /\ Live \subseteq drm_connected
    /\ Cardinality(drm_connected \ Live) = MaxFaults - faults
    /\ [][ last'.op = "hotplug"
           => LET candidates == (drm_connectors \cap drm_connected) \ Live
                  added == DOMAIN monitors' \ Live
              IN /\ last'.ok
                 /\ added \subseteq candidates
                 /\ Cardinality(candidates \ added) = faults - faults'
                 /\ \A c \in Live \cap drm_connectors :
                       /\ c \in DOMAIN monitors'
                       /\ \/ monitors'[c] = monitors[c]
                          \/ monitors'[c] = SetCanRender(monitors[c], TRUE) ]_vars
\* a pass found two connectors with a display and no Monitor; the setup of
\* one failed and the other got its Monitor
C24_Witness ==
    /\ last.op = "hotplug"
    /\ drm_connected = Connectors
    /\ Cardinality(Live) = 1
    /\ Cardinality(last.allocs) = 1
    /\ faults = MaxFaults - 1


\* C25: drain_hotplug_events reads the socket until EAGAIN and returns
\* Ok(true) exactly when one of the datagrams it read contains SUBSYSTEM=drm
\* and HOTPLUG=1 and (DEVTYPE=connector or DEVNAME=card); a receive error
\* other than EAGAIN ends the drain there and is what the call returns.
C25_DrainUntilEagain ==
    [][ last'.op = "drain_hotplug_events"
        => LET errors == {i \in 1..Len(uevents) : uevents[i].errno # "none"}
               qualifying ==
                   {i \in 1..Len(uevents) :
                       /\ uevents[i].errno = "none" /\ uevents[i].len > 0
                       /\ "SUBSYSTEM=drm" \in uevents[i].msg
                       /\ "HOTPLUG=1" \in uevents[i].msg
                       /\ \/ "DEVTYPE=connector" \in uevents[i].msg
                          \/ "DEVNAME=card" \in uevents[i].msg}
           IN IF errors = {}
              THEN /\ last'.ok
                   /\ last'.ret = (qualifying # {})
                   /\ uevents' = << >>
              ELSE /\ ~last'.ok
                   /\ last'.err = uevents[Min(errors)].errno
                   /\ uevents' = SubSeq(uevents, Min(errors) + 1, Len(uevents)) ]_vars
\* a drain read a datagram that did not qualify, then a card's hot-plug
\* uevent, and returned true at EAGAIN
C25_Witness ==
    /\ last.op = "drain_hotplug_events"
    /\ last.read = << Datagram(OtherMsg),
                      Datagram({"SUBSYSTEM=drm", "HOTPLUG=1", "DEVNAME=card"}) >>
    /\ last.ok /\ last.ret
    /\ uevents = << >>

\* C26 (as stated): a drain of exactly one datagram returns true when the
\* datagram contains SUBSYSTEM=drm, HOTPLUG=1 and DEVTYPE=connector, and
\* false when it misses any one of the three.
C26_ThreeTokens ==
    [][ (last'.op = "drain_hotplug_events" /\ Len(uevents) = 1
            /\ uevents[1].errno = "none" /\ uevents[1].len > 0)
        => /\ last'.ok
           /\ last'.ret = ({"SUBSYSTEM=drm", "HOTPLUG=1", "DEVTYPE=connector"}
                              \subseteq uevents[1].msg) ]_vars
\* C26 (amended): a drain of exactly one datagram returns true when the
\* datagram contains SUBSYSTEM=drm, HOTPLUG=1 and DEVTYPE=connector; false when
\* it misses SUBSYSTEM=drm or HOTPLUG=1, and false when it misses
\* DEVTYPE=connector unless it contains DEVNAME=card.
C26_ThreeTokensOrCard ==
    [][ (last'.op = "drain_hotplug_events" /\ Len(uevents) = 1
            /\ uevents[1].errno = "none" /\ uevents[1].len > 0)
        => LET msg == uevents[1].msg
           IN /\ last'.ok
              /\ {"SUBSYSTEM=drm", "HOTPLUG=1", "DEVTYPE=connector"} \subseteq msg
                    => last'.ret
              /\ ("SUBSYSTEM=drm" \notin msg \/ "HOTPLUG=1" \notin msg) => ~last'.ret
              /\ ("DEVTYPE=connector" \notin msg /\ "DEVNAME=card" \notin msg)
                    => ~last'.ret ]_vars
\* a drain of one datagram with the three tokens returned true
C26_Witness ==
    /\ last.op = "drain_hotplug_events"
    /\ last.read = << Datagram(HotplugMsg) >>
    /\ last.ok /\ last.ret


C28_DrawnOnlyByMakeCurrent ==
    /\ [][ last'.op = "make_current"
           => /\ ~last'.ok
              /\ monitors' = monitors ]_vars
    /\ [][ \A c \in Live \cap DOMAIN monitors' :
              (~monitors[c].was_drawn /\ monitors'[c].was_drawn)
                 => /\ monitors' = [monitors EXCEPT ![c].was_drawn = TRUE]
                    /\ last' = Quiet ]_vars
    /\ [][ last'.op = "swap_buffers"
           => /\ \A k \in last'.commits :
                    k.conn \in Live => monitors[k.conn].was_drawn
              /\ last'.marked \subseteq Drawn ]_vars
\* make_current failed on an instance none of whose Monitors is drawn
C28_Witness ==
    /\ last.op = "make_current" /\ ~last.ok
    /\ Cardinality(Live) = 2
    /\ Drawn = {}
    /\ faults = MaxFaults - 1


\* C29: a Monitor that a hot-plug pass set up has the CRTC, the primary
\* plane and the cursor plane of the allocation the pass computed for its
\* connector.
C29_SetupUsesAllocation ==
    [][ last'.op = "hotplug"
        => \A a \in last'.allocs :
              /\ a.connector \in DOMAIN monitors'
              /\ monitors'[a.connector].current_crtc = a.allocation.crtc_info
              /\ monitors'[a.connector].primary_plane_id = a.allocation.primary_plane
              /\ monitors'[a.connector].cursor_plane_id = a.allocation.cursor_plane ]_vars


\* C30: for the CRTC allocate_monitor_resources chose (the first candidate
\* of the connector that is not in use), the primary plane is the first plane
\* of the device's plane list that is not in use as a primary plane, whose
\* possible CRTCs contain the CRTC and whose type is Primary, and the call
\* fails with NoPrimaryPlaneFound when there is none; the cursor plane is
\* chosen the same way among the Cursor planes, and its absence does not fail
\* the call.
C30_PlanesFirstFit ==
    (last.op = "allocate_monitor_resources" /\ last.connected
        /\ \E i \in 1..Len(EncoderCrtcs(last.connector)) :
              EncoderCrtcs(last.connector)[i] \notin last.used.crtcs)
    => LET free == {i \in 1..Len(EncoderCrtcs(last.connector)) :
                       EncoderCrtcs(last.connector)[i] \notin last.used.crtcs}
           crtc == EncoderCrtcs(last.connector)[Min(free)]
           primaries == {i \in 1..Len(PlaneList) :
                            /\ PlaneList[i] \notin last.used.primary
                            /\ crtc \in PlaneCrtcs(PlaneList[i])
                            /\ PlaneTypeOf(PlaneList[i]) = "Primary"}
           cursors == {i \in 1..Len(PlaneList) :
                          /\ PlaneList[i] \notin last.used.cursor
                          /\ crtc \in PlaneCrtcs(PlaneList[i])
                          /\ PlaneTypeOf(PlaneList[i]) = "Cursor"}
       IN IF primaries = {}
          THEN ~last.ok /\ last.err = "NoPrimaryPlaneFound"
          ELSE /\ last.ok
               /\ Unwrap(last.allocation).crtc_info = crtc
               /\ Unwrap(last.allocation).primary_plane = PlaneList[Min(primaries)]
               /\ Unwrap(last.allocation).cursor_plane =
                     (IF cursors = {} THEN None ELSE Some(PlaneList[Min(cursors)]))
\* with CRTC 11 and its own primary plane in use and no cursor plane left,
\* the allocation is CRTC 12 with its first primary plane and no cursor plane
C30_Witness ==
    /\ last.op = "allocate_monitor_resources"
    /\ last.used = [crtcs |-> {11}, primary |-> {21}, cursor |-> {22, 24, 26}]
    /\ last.ok
    /\ Unwrap(last.allocation) =
          [crtc_info |-> 12, primary_plane |-> 23, cursor_plane |-> None]


(***************************************************************************)
(* Devices that differ in where they expose IN_FENCE_FD.                   *)
(***************************************************************************)
\* the property maps Monitor::setup can snapshot for the CRTC and for the
\* primary plane: with or without IN_FENCE_FD
CrtcPropCaches == {CrtcProps, CrtcProps \cup {"IN_FENCE_FD"}}
PlanePropCaches == {PlaneProps, PlaneProps \ {"IN_FENCE_FD"}}
\* the monitors set up on a device with these property maps
WithCaches(mons, crtc_props, plane_props) ==
    [c \in DOMAIN mons |-> [mons[c] EXCEPT !.crtc_properties = crtc_props,
                                           !.plane_properties = plane_props]]

\* a device with one connected connector and no uevent socket, whose CRTC
\* and primary plane may or may not expose IN_FENCE_FD, an environment that
\* injects failures
InitFence ==
    /\ drm_all = {1}
    /\ drm_connectors = {1}
    /\ drm_connected = {1}
    /\ drm_modes = << << Mode1080, Mode720 >>, << >> >>
    /\ uevent_socket = FALSE
    /\ \E crtc_props \in CrtcPropCaches, plane_props \in PlanePropCaches :
          monitors = WithCaches(DiscoverMonitors(drm_connectors, drm_connected,
                                                 drm_modes, {}),
                                crtc_props, plane_props)
    /\ faults = MaxFaults
    /\ LET g == UpdateRefreshRateGroups(monitors)
       IN /\ refresh_rate_groups = g.groups
          /\ fastest_group_refresh = g.fastest
          /\ fastest_group_pending = g.pending
          /\ should_update_flag = g.flag
    /\ uevents = << >>
    /\ page_flips = {}
    /\ fds = {}
    /\ syncs = {}
    /\ committed_mode = NoModes
    /\ since_reset = {}
    /\ cycle_done = FALSE
    /\ last = Quiet

SpecFence == InitFence /\ [][NextBatch]_vars

\* the IN_FENCE_FD entries of a commit
FenceEntries(k) == {p \in k.props : p.prop = "IN_FENCE_FD"}

\* C31: every commit of a Monitor attaches the descriptor of the fence it
\* just created as IN_FENCE_FD to the CRTC when the cached CRTC properties
\* have IN_FENCE_FD, otherwise to the primary plane when the cached plane
\* properties have it, and to nothing when neither has it; never to both.
C31_FenceAttachment ==
    [][ \A c \in Live \cap Live' :
          \A k \in {j \in last'.commits : j.conn = c} :
            last'.op = "swap_buffers"
              => LET m == monitors[c]
                     new_fd == IF k.accepted
                               THEN {Unwrap(monitors'[c].previous_fence_fd)}
                               ELSE fds' \ HeldFds'
                 IN /\ Cardinality(FenceEntries(k)) <= 1
                    /\ \A p \in FenceEntries(k) : p.val \in new_fd
                    /\ IF "IN_FENCE_FD" \in m.crtc_properties
                       THEN {p.obj : p \in FenceEntries(k)} = {m.current_crtc}
                       ELSE IF "IN_FENCE_FD" \in m.plane_properties
                       THEN {p.obj : p \in FenceEntries(k)} = {m.primary_plane_id}
                       ELSE FenceEntries(k) = {} ]_vars
\* both maps have IN_FENCE_FD and an accepted commit carries the fence on
\* the CRTC alone
C31_Witness ==
    \E c \in Live : \E k \in AcceptedFor(last, c) :
        /\ last.op = "swap_buffers"
        /\ "IN_FENCE_FD" \in monitors[c].crtc_properties
        /\ "IN_FENCE_FD" \in monitors[c].plane_properties
        /\ {p.obj : p \in FenceEntries(k)} = {monitors[c].current_crtc}


\* C32: when swap_buffers returns an error, every Monitor left with
\* can_render = false has a page-flip event of its CRTC still queued, and a
\* Monitor's current_mode has changed only if a commit of it that carried
\* the mode set was accepted.
C32_RecoverableAfterFailure ==
    [][ (last'.op = "swap_buffers" /\ ~last'.ok)
          => \A c \in Live' :
               /\ ~monitors'[c].can_render
                    => monitors'[c].current_crtc \in page_flips'
               /\ monitors'[c].current_mode # monitors[c].current_mode
                    => \E k \in AcceptedFor(last', c) :
                          /\ "MODE_ID" \in PropNames(k, monitors[c].current_crtc)
                          /\ monitors'[c].current_mode = monitors[c].requested_mode ]_vars
\* a commit that carried a mode set was rejected: the Monitor is still
\* renderable and still needs the mode set
C32_Witness ==
    /\ last.op = "swap_buffers"
    /\ ~last.ok
    /\ \E c \in Live : \E k \in last.commits :
          /\ k.conn = c
          /\ ~k.accepted
          /\ "MODE_ID" \in PropNames(k, monitors[c].current_crtc)
          /\ monitors[c].can_render
          /\ NeedsModeSet(monitors[c])


\* C33: when a swap_buffers call returns, with Ok or with an error, every
\* fence descriptor and EGL sync it created is held by a Monitor in
\* previous_fence_fd / previous_sync or has been released: the call adds no
\* open descriptor and no live sync that no Monitor holds.
C33_NoLeakOnError ==
    [][ last'.op = "swap_buffers"
          => /\ (fds' \ HeldFds') \subseteq (fds \ HeldFds)
             /\ (syncs' \ HeldSyncs') \subseteq (syncs \ HeldSyncs) ]_vars


\* C34: after a hot-plug reconciliation pass the connector of every live
\* Monitor is in state Connected: a connector that is still enumerated but
\* has changed to Disconnected does not keep its Monitor.
C34_LiveAreConnected ==
    [][ last'.op = "hotplug" => Live' \subseteq drm_connected' ]_vars


\* C35: at most one page flip is outstanding per Monitor: a swap_buffers call
\* submits a commit of a Monitor only if its can_render was true, whatever
\* make_current and swap_buffers calls came before.
C35_OneFlipOutstanding ==
    [][ last'.op = "swap_buffers"
          => \A k \in last'.commits :
                k.conn \in Live => monitors[k.conn].can_render ]_vars


(***************************************************************************)
(* The event loop under fairness: the kernel delivers the page-flip events *)
(* of the accepted commits and the caller keeps calling poll_events.       *)
(***************************************************************************)
\* a poll_events call that reads every page-flip event the kernel has queued
PageFlipsDelivered == PollEvents /\ page_flips # {} /\ page_flips' = {}

\* a device with one connector, with or without a uevent socket
SpecLive == InitPoll /\ [][NextBase]_vars /\ WF_vars(PageFlipsDelivered)

\* C36: if a swap_buffers call succeeds, every Monitor committed in that
\* batch eventually has can_render = true again or is no longer live,
\* provided the page-flip events are delivered and the caller keeps calling
\* poll_events.
C36_CommittedBecomesRenderable ==
    \A c \in Connectors :
        (last.op = "swap_buffers" /\ last.ok /\ c \in last.marked /\ c \in Live
            /\ ~monitors[c].can_render)
          ~> (c \notin Live \/ monitors[c].can_render)
\* the page-flip event of a committed Monitor was read by a poll_events
\* that also reconciled a hot-plug, and the Monitor is renderable again
C36_Witness ==
    /\ last.op = "hotplug"
    /\ page_flips = {}
    /\ \E c \in Live : ~monitors[c].first_frame /\ monitors[c].can_render


\* the size of the buffers of the Monitor's GBM surface: GlesContext::new
\* creates the surface once, at setup, with the size of default_mode
SurfaceSize(m) == ModeSize(m.default_mode)

\* C37: in every commit that performs a mode set, the source rectangle on
\* the primary plane (SRC_W >> 16, SRC_H >> 16) is the size of the buffer
\* attached as FB_ID, also when set_mode selected a mode of another size
\* than default_mode.
C37_SourceRectIsBufferSize ==
    [][ \A c \in Live \cap Live' :
          \A k \in {j \in last'.commits : j.conn = c} :
            (last'.op = "swap_buffers"
               /\ "MODE_ID" \in PropNames(k, monitors[c].current_crtc))
              => LET m == monitors[c]
                 IN /\ HasFramebuffer(k, m)
                    /\ << PropVal(k, m.primary_plane_id, "SRC_W") \div 65536,
                          PropVal(k, m.primary_plane_id, "SRC_H") \div 65536 >>
                         = SurfaceSize(m) ]_vars


(***************************************************************************)
(* One discovery pass on devices that differ in the CRTCs the encoders of  *)
(* a connector can drive.                                                  *)
(***************************************************************************)
\* res.filter_crtcs(encoder.possible_crtcs()) over connector.encoders(), per
\* connector, on the devices considered
EncoderMaps == [Connectors -> {<< 11, 12 >>, << 12, 11 >>, << 11 >>, << 12 >>}]

\* EasyDRM::allocate_monitor_resources on a device with the encoder map
\* `encoders`: Some(allocation), or None for an Err
AllocateOn(encoders, c, used, connected) ==
    IF c \notin connected THEN None
    ELSE LET candidates == Dedup(encoders[c], used.crtcs)
         IN IF candidates = << >> THEN None
            ELSE LET crtc == candidates[1]
                     primary == FindPlaneForCrtc(crtc, "Primary", used.primary)
                     cursor == FindPlaneForCrtc(crtc, "Cursor", used.cursor)
                 IN IF primary = None THEN None
                    ELSE Some([crtc_info |-> crtc,
                               primary_plane |-> Unwrap(primary),
                               cursor_plane |-> cursor])

\* the loop of discover_monitors / handle_hotplug on that device, over the
\* connectors in `order`: the monitor map it leaves
RECURSIVE DiscoverOn(_, _, _, _, _, _)
DiscoverOn(encoders, mons, used, order, connected, modes) ==
    IF order = << >> THEN mons
    ELSE LET c == Head(order)
             allocation == AllocateOn(encoders, c, used, connected)
             monitor == MonitorSetup(c, modes[c], TRUE)
         IN IF c \in DOMAIN mons \/ allocation = None \/ monitor = None
            THEN DiscoverOn(encoders, mons, used, Tail(order), connected, modes)
            ELSE LET m == Unwrap(monitor)
                     used2 == [ crtcs |-> used.crtcs \cup {m.current_crtc},
                                primary |-> used.primary \cup {m.primary_plane_id},
                                cursor |-> used.cursor \cup
                                    (IF IsSome(m.cursor_plane_id)
                                     THEN {Unwrap(m.cursor_plane_id)} ELSE {}) ]
                     mons2 == [d \in DOMAIN mons \cup {c} |->
                                  IF d = c THEN m ELSE mons[d]]
                 IN DiscoverOn(encoders, mons2, used2, Tail(order), connected, modes)

\* what one pass was given and the connectors it set up a Monitor for
PassObs(encoders, connected, order) ==
    [ op |-> "discover", ok |-> TRUE, err |-> "none", ret |-> FALSE,
      commits |-> {}, marked |-> {}, allocs |-> {},
      encoders |-> encoders, connected |-> connected, order |-> order,
      live |-> DOMAIN DiscoverOn(encoders, << >>, CurrentResourceUsage(<< >>), order,
                                 connected,
                                 [c \in Connectors |-> << Mode1080, Mode720 >>]) ]

\* one pass over the connectors of a device on which no Monitor exists yet
Discover ==
    /\ last.op = "none"
    /\ \E encoders \in EncoderMaps, connected \in SUBSET Connectors,
          order \in Orders(Connectors) :
          last' = PassObs(encoders, connected, order)
    /\ UNCHANGED << monitors, refresh_rate_groups, fastest_group_refresh,
                    fastest_group_pending, should_update_flag, uevent_socket,
                    drm_connectors, drm_connected, drm_modes, uevents, page_flips,
                    fds, syncs, drm_all, faults, committed_mode, since_reset,
                    cycle_done >>

SpecPass == InitAlloc /\ [][Discover]_vars

\* the connected connectors can be given pairwise distinct CRTCs their
\* encoders reach, each with a distinct compatible primary plane
Feasible(encoders, connected) ==
    \E f \in [connected -> Range(Crtcs)] :
        /\ \A a, b \in connected : a # b => f[a] # f[b]
        /\ \A c \in connected : f[c] \in Range(encoders[c])
        /\ \E g \in [connected -> {p \in Range(PlaneList) : PlaneTypeOf(p) = "Primary"}] :
              /\ \A a, b \in connected : a # b => g[a] # g[b]
              /\ \A c \in connected : f[c] \in PlaneCrtcs(g[c])

\* C38: if the Connected connectors without a Monitor can all be given
\* pairwise distinct free CRTCs reachable through their encoders, each with a
\* distinct free compatible primary plane, one pass sets up a Monitor for
\* every one of them, whatever the order it processes them in.
C38_AllocationComplete ==
    (last.op = "discover" /\ Feasible(last.encoders, last.connected))
        => last.live = last.connected


\* C39: in every state the orchestrator can be left in, each live Monitor's
\* connector is in exactly one list of refresh_rate_groups, every connector
\* in refresh_rate_groups or in fastest_group_pending is the key of a live
\* Monitor, and each Monitor is stored under its own connector_id.
C39_GroupsCoverLive ==
    /\ \A c \in Live :
          Cardinality({hz \in DOMAIN refresh_rate_groups :
                          c \in refresh_rate_groups[hz]}) = 1
    /\ \A hz \in DOMAIN refresh_rate_groups : refresh_rate_groups[hz] \subseteq Live
    /\ fastest_group_pending \subseteq Live
    /\ \A c \in Live : monitors[c].connector_id = c
\* a hot-plug pass has left two Monitors, in two groups
C39_Witness ==
    /\ last.op = "hotplug"
    /\ Cardinality(Live) = 2
    /\ Cardinality(DOMAIN refresh_rate_groups) = 2


\* C40: swap_buffers leaves every Monitor whose was_drawn is false as it
\* was (can_render, requested and current mode, previous_bo,
\* previous_fence_fd, previous_sync and every other field), and submits no
\* commit of it.
C40_UndrawnUntouched ==
    [][ last'.op = "swap_buffers"
          => \A c \in Live :
                ~monitors[c].was_drawn
                  => /\ c \in Live'
                     /\ monitors'[c] = monitors[c]
                     /\ \A k \in last'.commits : k.conn # c ]_vars
\* a call has committed one Monitor while the other one, not drawn, still
\* waits for its page flip
C40_Witness ==
    /\ last.op = "swap_buffers"
    /\ last.ok
    /\ \E a, b \in Live :
          /\ a # b
          /\ a \in last.marked
          /\ b \notin last.marked
          /\ \A k \in last.commits : k.conn # b
          /\ IsSome(monitors[b].previous_bo)
          /\ ~monitors[b].can_render
====
